---- MODULE Spec2Model ----
(***************************************************************************)
(* smbios-lib: the Windows raw SMBIOS envelope (src/windows/win_struct.rs) *)
(* and the type dispatcher with its table (src/structs/struct_type.rs).    *)
(*                                                                         *)
(* Three specifications share the variables:                               *)
(*   Spec          WinSMBiosData: is_valid_win_smbios_data, new, accessors *)
(*   SpecDispatch  From<&SMBiosStructParts> for DefinedStruct, two calls   *)
(*   SpecTable     FromIterator for DefinedStructTable (new, add loop)     *)
(***************************************************************************)
EXTENDS Integers, Sequences, FiniteSets

VARIABLES
    raw_data,               \* the Vec<u8> handed to is_valid_win_smbios_data / new
    valid_ret,              \* what is_valid_win_smbios_data(&raw_data) returned
    new_ret,                \* what WinSMBiosData::new(raw_data) returned
    from_vec_and_version_calls, \* arguments of every SMBiosData::from_vec_and_version call
    last_call,              \* the last accessor called on the WinSMBiosData and its return
    first_struct,           \* first From::from call: [parts, ret]
    second_struct,          \* second From::from call: [parts, ret]
    iter,                   \* the spans the iterator given to from_iter yields
    iter_pos,               \* how many of them the for loop has taken
    defined_struct_table,   \* DefinedStructTable.0 under construction
    pc                      \* position inside from_iter

vars == << raw_data, valid_ret, new_ret, from_vec_and_version_calls, last_call,
           first_struct, second_struct, iter, iter_pos, defined_struct_table, pc >>

winVars == << raw_data, valid_ret, new_ret, from_vec_and_version_calls, last_call >>
dispatchVars == << first_struct, second_struct >>
tableVars == << iter, iter_pos, defined_struct_table, pc >>

(***************************************************************************)
(* Bounds                                                                  *)
(***************************************************************************)
\* Longest byte buffer: 8 header bytes and up to two payload bytes.
MaxLen == 10
\* Longest sequence of spans given to from_iter.
MaxSpans == 3

\* The byte values buffers are drawn from.  The little-endian length field
\* built from them stays below 2^31, inside TLC's integers, and below 2^32,
\* so u32 and usize arithmetic on it never wraps.
ByteVals == {0, 1, 2}

Buffers == UNION { [1..n -> ByteVals] : n \in 0..MaxLen }

(***************************************************************************)
(* Return values: a call returns a value or panics (aborts).               *)
(***************************************************************************)
NotCalled == [kind |-> "NotCalled"]
Panic == [kind |-> "Panic"]
Ret(v) == [kind |-> "Ret", value |-> v]
Some(v) == [kind |-> "Some", value |-> v]
None == [kind |-> "None"]
Ok(v) == [kind |-> "Ok", value |-> v]
Err(k) == [kind |-> "Err", error |-> k]

(***************************************************************************)
(* WinSMBiosData: field offsets                                            *)
(***************************************************************************)
USED20_CALLING_METHOD_OFFSET == 0
SMBIOS_MAJOR_VERSION_OFFSET == 1
SMBIOS_MINOR_VERSION_OFFSET == 2
DMI_REVISION_OFFSET == 3
TABLE_DATA_LENGTH_OFFSET == 4
SMBIOS_TABLE_DATA_OFFSET == 8

(***************************************************************************)
(* Slices and indexing, 0-based as in the source                           *)
(***************************************************************************)
\* v.get(lo..hi): None when the range is out of bounds.
Get(v, lo, hi) ==
    IF lo <= hi /\ hi <= Len(v) THEN Some(SubSeq(v, lo + 1, hi)) ELSE None

\* v[i]: panics when i is out of bounds.
Index(v, i) ==
    IF i < Len(v) THEN Ret(v[i + 1]) ELSE Panic

\* &v[..hi]: panics when hi is out of bounds.
SliceTo(v, hi) ==
    IF hi <= Len(v) THEN Ret(SubSeq(v, 1, hi)) ELSE Panic

\* &v[lo..]: panics when lo is out of bounds.
SliceFrom(v, lo) ==
    IF lo <= Len(v) THEN Ret(SubSeq(v, lo + 1, Len(v))) ELSE Panic

\* u32::from_le_bytes of a four-byte array.
from_le_bytes(b) ==
    b[1] + 256 * b[2] + 65536 * b[3] + 16777216 * b[4]

\* slice.try_into().expect(..) to [u8; 4], then u32::from_le_bytes.
U32FromSlice(slice) ==
    IF Len(slice) # 4 THEN Panic ELSE Ret(from_le_bytes(slice))

\* a - b on usize: out of range below zero (a panic in a checked build).
UsizeSub(a, b) ==
    IF a >= b THEN Ret(a - b) ELSE Panic

(***************************************************************************)
(* WinSMBiosData::is_valid_win_smbios_data                                 *)
(***************************************************************************)
\* The length check written with < in place of <=.
is_valid_win_smbios_data_lt(raw) ==
    LET length == Len(raw) IN
    IF length < SMBIOS_TABLE_DATA_OFFSET THEN Ret(FALSE)
    ELSE
        LET slice == Get(raw, TABLE_DATA_LENGTH_OFFSET, TABLE_DATA_LENGTH_OFFSET + 4) IN
        IF slice.kind = "None" THEN Panic
        ELSE
            LET table_data_length == U32FromSlice(slice.value)
                rest == UsizeSub(length, SMBIOS_TABLE_DATA_OFFSET) IN
            IF table_data_length.kind = "Panic" \/ rest.kind = "Panic" THEN Panic
            ELSE Ret(table_data_length.value = rest.value)

\* The length check left out.
is_valid_win_smbios_data_nocheck(raw) ==
    LET length == Len(raw)
        slice == Get(raw, TABLE_DATA_LENGTH_OFFSET, TABLE_DATA_LENGTH_OFFSET + 4) IN
    IF slice.kind = "None" THEN Panic
    ELSE
        LET table_data_length == U32FromSlice(slice.value)
            rest == UsizeSub(length, SMBIOS_TABLE_DATA_OFFSET) IN
        IF table_data_length.kind = "Panic" \/ rest.kind = "Panic" THEN Panic
        ELSE Ret(table_data_length.value = rest.value)

\* Only the low byte of the length field compared.
is_valid_win_smbios_data_lowbyte(raw) ==
    LET length == Len(raw) IN
    IF length <= SMBIOS_TABLE_DATA_OFFSET THEN Ret(FALSE)
    ELSE
        LET slice == Get(raw, TABLE_DATA_LENGTH_OFFSET, TABLE_DATA_LENGTH_OFFSET + 4) IN
        IF slice.kind = "None" THEN Panic
        ELSE
            LET rest == UsizeSub(length, SMBIOS_TABLE_DATA_OFFSET) IN
            IF rest.kind = "Panic" THEN Panic
            ELSE Ret(slice.value[1] = rest.value % 256)

is_valid_win_smbios_data(raw) ==
    LET length == Len(raw) IN
    IF length <= SMBIOS_TABLE_DATA_OFFSET THEN Ret(FALSE)
    ELSE
        \* retrieve the table data length field
        LET slice == Get(raw, TABLE_DATA_LENGTH_OFFSET, TABLE_DATA_LENGTH_OFFSET + 4) IN
        IF slice.kind = "None" THEN Panic                       \* .unwrap()
        ELSE
            LET table_data_length == U32FromSlice(slice.value)  \* .expect(..), as usize
                rest == UsizeSub(length, SMBIOS_TABLE_DATA_OFFSET) IN
            IF table_data_length.kind = "Panic" \/ rest.kind = "Panic" THEN Panic
            ELSE Ret(table_data_length.value = rest.value)

(***************************************************************************)
(* WinSMBiosData::version_from_raw_header                                  *)
(***************************************************************************)
\* Every field read one byte early.
version_from_raw_header_shifted(windows_header) ==
    LET major == Index(windows_header, USED20_CALLING_METHOD_OFFSET)
        minor == Index(windows_header, SMBIOS_MAJOR_VERSION_OFFSET)
        revision == Index(windows_header, SMBIOS_MINOR_VERSION_OFFSET) IN
    IF major.kind = "Panic" \/ minor.kind = "Panic" \/ revision.kind = "Panic"
    THEN Panic
    ELSE Ret([major |-> major.value, minor |-> minor.value,
              revision |-> revision.value])

version_from_raw_header(windows_header) ==
    LET major == Index(windows_header, SMBIOS_MAJOR_VERSION_OFFSET)
        minor == Index(windows_header, SMBIOS_MINOR_VERSION_OFFSET)
        revision == Index(windows_header, DMI_REVISION_OFFSET) IN
    IF major.kind = "Panic" \/ minor.kind = "Panic" \/ revision.kind = "Panic"
    THEN Panic
    ELSE Ret([major |-> major.value, minor |-> minor.value,
              revision |-> revision.value])

(***************************************************************************)
(* SMBiosData::from_vec_and_version: the structure-table decoder.  Its     *)
(* result is the pair of arguments it was built from.                      *)
(***************************************************************************)
from_vec_and_version(data, version) ==
    [data |-> data, version |-> version]

(***************************************************************************)
(* WinSMBiosData::new.  The result carries the value returned (ret) and    *)
(* the calls made to from_vec_and_version on the way (calls).              *)
(***************************************************************************)
NewResult(ret, calls) == [ret |-> ret, calls |-> calls]

\* The Ok branch of new, with the header kept up to `header_end`.
NewOkBranch(raw_smbios_data, header_end) ==
    LET windows_header == SliceTo(raw_smbios_data, header_end) IN
    IF windows_header.kind = "Panic" THEN NewResult(Panic, << >>)
    ELSE
        LET version == version_from_raw_header(windows_header.value)
            table == SliceFrom(raw_smbios_data, SMBIOS_TABLE_DATA_OFFSET) IN
        IF version.kind = "Panic" \/ table.kind = "Panic"
        THEN NewResult(Panic, << >>)
        ELSE
            LET smbios_data == from_vec_and_version(table.value, Some(version.value)) IN
            NewResult(Ok([windows_header |-> windows_header.value,
                          smbios_data |-> smbios_data]),
                      << [data |-> table.value, version |-> Some(version.value)] >>)

\* The validity test left out: every buffer goes to the Ok branch.
new_unchecked(raw_smbios_data) ==
    NewOkBranch(raw_smbios_data, SMBIOS_TABLE_DATA_OFFSET)

\* The header cut at the length field instead of at the table data.
new_short_header(raw_smbios_data) ==
    LET valid == is_valid_win_smbios_data(raw_smbios_data) IN
    IF valid.kind = "Panic" THEN NewResult(Panic, << >>)
    ELSE IF ~valid.value THEN NewResult(Err("InvalidData"), << >>)
    ELSE NewOkBranch(raw_smbios_data, TABLE_DATA_LENGTH_OFFSET)

new(raw_smbios_data) ==
    LET valid == is_valid_win_smbios_data(raw_smbios_data) IN
    IF valid.kind = "Panic" THEN NewResult(Panic, << >>)
    ELSE IF ~valid.value THEN NewResult(Err("InvalidData"), << >>)
    ELSE NewOkBranch(raw_smbios_data, SMBIOS_TABLE_DATA_OFFSET)

(***************************************************************************)
(* WinSMBiosData accessors; self is the value new returned.                *)
(***************************************************************************)
raw_smbios_data(self) ==
    Ret(self.windows_header)

used20_calling_method(self) ==
    Index(self.windows_header, USED20_CALLING_METHOD_OFFSET)

smbios_major_version(self) ==
    Index(self.windows_header, SMBIOS_MAJOR_VERSION_OFFSET)

smbios_minor_version(self) ==
    Index(self.windows_header, SMBIOS_MINOR_VERSION_OFFSET)

dmi_revision(self) ==
    Index(self.windows_header, DMI_REVISION_OFFSET)

\* The length field read as big-endian.
table_data_length_be(self) ==
    LET slice == Get(self.windows_header, TABLE_DATA_LENGTH_OFFSET,
                     TABLE_DATA_LENGTH_OFFSET + 4) IN
    IF slice.kind = "None" THEN Panic
    ELSE IF Len(slice.value) # 4 THEN Panic
    ELSE Ret(slice.value[4] + 256 * slice.value[3] + 65536 * slice.value[2]
             + 16777216 * slice.value[1])

table_data_length(self) ==
    LET slice == Get(self.windows_header, TABLE_DATA_LENGTH_OFFSET,
                     TABLE_DATA_LENGTH_OFFSET + 4) IN
    IF slice.kind = "None" THEN Panic          \* .unwrap()
    ELSE U32FromSlice(slice.value)             \* .expect(..)

Accessors == { "raw_smbios_data", "used20_calling_method", "smbios_major_version",
               "smbios_minor_version", "dmi_revision", "table_data_length" }

CallAccessor(name, self) ==
    CASE name = "raw_smbios_data" -> raw_smbios_data(self)
      [] name = "used20_calling_method" -> used20_calling_method(self)
      [] name = "smbios_major_version" -> smbios_major_version(self)
      [] name = "smbios_minor_version" -> smbios_minor_version(self)
      [] name = "dmi_revision" -> dmi_revision(self)
      [] name = "table_data_length" -> table_data_length(self)

(***************************************************************************)
(* Idle values of the variables a specification does not use               *)
(***************************************************************************)
WinIdle ==
    /\ raw_data = << >>
    /\ valid_ret = NotCalled
    /\ new_ret = NotCalled
    /\ from_vec_and_version_calls = << >>
    /\ last_call = NotCalled

DispatchIdle ==
    /\ first_struct = NotCalled
    /\ second_struct = NotCalled

TableIdle ==
    /\ iter = << >>
    /\ iter_pos = 0
    /\ defined_struct_table = << >>
    /\ pc = "idle"

(***************************************************************************)
(* Spec: a caller holds one buffer and calls the WinSMBiosData functions   *)
(***************************************************************************)
Init ==
    /\ raw_data \in Buffers
    /\ valid_ret = NotCalled
    /\ new_ret = NotCalled
    /\ from_vec_and_version_calls = << >>
    /\ last_call = NotCalled
    /\ DispatchIdle
    /\ TableIdle

\* WinSMBiosData::is_valid_win_smbios_data(&raw_data)
IsValid ==
    /\ valid_ret = NotCalled
    /\ valid_ret' = is_valid_win_smbios_data(raw_data)
    /\ UNCHANGED << raw_data, new_ret, from_vec_and_version_calls, last_call >>
    /\ UNCHANGED << dispatchVars, tableVars >>

\* WinSMBiosData::new(raw_data)
New ==
    /\ new_ret = NotCalled
    /\ LET r == new(raw_data) IN
        /\ new_ret' = r.ret
        /\ from_vec_and_version_calls' = from_vec_and_version_calls \o r.calls
    /\ UNCHANGED << raw_data, valid_ret, last_call >>
    /\ UNCHANGED << dispatchVars, tableVars >>

\* One of the &self accessors, on the WinSMBiosData new returned.
Access ==
    /\ new_ret.kind = "Ok"
    /\ \E name \in Accessors :
        last_call' = [kind |-> "Called", name |-> name,
                      ret |-> CallAccessor(name, new_ret.value)]
    /\ UNCHANGED << raw_data, valid_ret, new_ret, from_vec_and_version_calls >>
    /\ UNCHANGED << dispatchVars, tableVars >>

Next == IsValid \/ New \/ Access

Spec == Init /\ [][Next]_vars

(***************************************************************************)
(* DefinedStruct: the enum, one << variant, wrapped struct >> per line in  *)
(* declaration order.                                                      *)
(***************************************************************************)
DefinedStruct == <<
    << "Information", "SMBiosInformation" >>,
    << "SystemInformation", "SMBiosSystemInformation" >>,
    << "BaseBoardInformation", "SMBiosBaseboardInformation" >>,
    << "SystemChassisInformation", "SMBiosSystemChassisInformation" >>,
    << "ProcessorInformation", "SMBiosProcessorInformation" >>,
    << "MemoryControllerInformation", "SMBiosMemoryControllerInformation" >>,
    << "MemoryModuleInformation", "SMBiosMemoryModuleInformation" >>,
    << "CacheInformation", "SMBiosCacheInformation" >>,
    << "PortConnectorInformation", "SMBiosPortConnectorInformation" >>,
    << "SystemSlot", "SMBiosSystemSlot" >>,
    << "OnBoardDeviceInformation", "SMBiosOnBoardDeviceInformation" >>,
    << "OemStrings", "SMBiosOemStrings" >>,
    << "SystemConfigurationOptions", "SMBiosSystemConfigurationOptions" >>,
    << "LanguageInformation", "SMBiosBiosLanguageInformation" >>,
    << "GroupAssociations", "SMBiosGroupAssociations" >>,
    << "EventLog", "SMBiosSystemEventLog" >>,
    << "PhysicalMemoryArray", "SMBiosPhysicalMemoryArray" >>,
    << "MemoryDevice", "SMBiosMemoryDevice" >>,
    << "MemoryErrorInformation32Bit", "SMBiosMemoryErrorInformation32" >>,
    << "MemoryArrayMappedAddress", "SMBiosMemoryArrayMappedAddress" >>,
    << "MemoryDeviceMappedAddress", "SMBiosMemoryDeviceMappedAddress" >>,
    << "BuiltInPointingDevice", "SMBiosBuiltInPointingDevice" >>,
    << "PortableBattery", "SMBiosPortableBattery" >>,
    << "SystemReset", "SMBiosSystemReset" >>,
    << "HardwareSecurity", "SMBiosHardwareSecurity" >>,
    << "SystemPowerControls", "SMBiosSystemPowerControls" >>,
    << "VoltageProbe", "SMBiosVoltageProbe" >>,
    << "CoolingDevice", "SMBiosCoolingDevice" >>,
    << "TemperatureProbe", "SMBiosTemperatureProbe" >>,
    << "ElectricalCurrentProbe", "SMBiosElectricalCurrentProbe" >>,
    << "OutOfBandRemoteAccess", "SMBiosOutOfBandRemoteAccess" >>,
    << "BisEntryPoint", "SMBiosBisEntryPoint" >>,
    << "SystemBootInformation", "SMBiosSystemBootInformation" >>,
    << "MemoryErrorInformation64Bit", "SMBiosMemoryErrorInformation64" >>,
    << "ManagementDevice", "SMBiosManagementDevice" >>,
    << "ManagementDeviceComponent", "SMBiosManagementDeviceComponent" >>,
    << "ManagementDeviceThresholdData", "SMBiosManagementDeviceThresholdData" >>,
    << "MemoryChannel", "SMBiosMemoryChannel" >>,
    << "IpmiDeviceInformation", "SMBiosIpmiDeviceInformation" >>,
    << "SystemPowerSupply", "SMBiosSystemPowerSupply" >>,
    << "AdditionalInformation", "SMBiosAdditionalInformation" >>,
    << "OnboardDevicesExtendedInformation", "SMBiosOnboardDevicesExtendedInformation" >>,
    << "ManagementControllerHostInterface", "SMBiosManagementControllerHostInterface" >>,
    << "TpmDevice", "SMBiosTpmDevice" >>,
    << "ProcessorAdditionalInformation", "SMBiosProcessorAdditionalInformation" >>,
    << "Inactive", "SMBiosInactive" >>,
    << "EndOfTable", "SMBiosEndOfTable" >>,
    << "Unknown", "SMBiosUnknown" >>
>>

\* X::STRUCT_TYPE of every structure type X the match names: the DMTF type
\* number of the structure (0..44, 126, 127).
STRUCT_TYPE ==
    [
      SMBiosInformation |-> 0,
      SMBiosSystemInformation |-> 1,
      SMBiosBaseboardInformation |-> 2,
      SMBiosSystemChassisInformation |-> 3,
      SMBiosProcessorInformation |-> 4,
      SMBiosMemoryControllerInformation |-> 5,
      SMBiosMemoryModuleInformation |-> 6,
      SMBiosCacheInformation |-> 7,
      SMBiosPortConnectorInformation |-> 8,
      SMBiosSystemSlot |-> 9,
      SMBiosOnBoardDeviceInformation |-> 10,
      SMBiosOemStrings |-> 11,
      SMBiosSystemConfigurationOptions |-> 12,
      SMBiosBiosLanguageInformation |-> 13,
      SMBiosGroupAssociations |-> 14,
      SMBiosSystemEventLog |-> 15,
      SMBiosPhysicalMemoryArray |-> 16,
      SMBiosMemoryDevice |-> 17,
      SMBiosMemoryErrorInformation32 |-> 18,
      SMBiosMemoryArrayMappedAddress |-> 19,
      SMBiosMemoryDeviceMappedAddress |-> 20,
      SMBiosBuiltInPointingDevice |-> 21,
      SMBiosPortableBattery |-> 22,
      SMBiosSystemReset |-> 23,
      SMBiosHardwareSecurity |-> 24,
      SMBiosSystemPowerControls |-> 25,
      SMBiosVoltageProbe |-> 26,
      SMBiosCoolingDevice |-> 27,
      SMBiosTemperatureProbe |-> 28,
      SMBiosElectricalCurrentProbe |-> 29,
      SMBiosOutOfBandRemoteAccess |-> 30,
      SMBiosBisEntryPoint |-> 31,
      SMBiosSystemBootInformation |-> 32,
      SMBiosMemoryErrorInformation64 |-> 33,
      SMBiosManagementDevice |-> 34,
      SMBiosManagementDeviceComponent |-> 35,
      SMBiosManagementDeviceThresholdData |-> 36,
      SMBiosMemoryChannel |-> 37,
      SMBiosIpmiDeviceInformation |-> 38,
      SMBiosSystemPowerSupply |-> 39,
      SMBiosAdditionalInformation |-> 40,
      SMBiosOnboardDevicesExtendedInformation |-> 41,
      SMBiosManagementControllerHostInterface |-> 42,
      SMBiosTpmDevice |-> 43,
      SMBiosProcessorAdditionalInformation |-> 44,
      SMBiosInactive |-> 126,
      SMBiosEndOfTable |-> 127
    ]

\* X::new(parts): the typed view X over the parts.
StructNew(struct, parts) ==
    [struct |-> struct, parts |-> parts]

\* parts.header.struct_type(): the type byte of the header.
struct_type(header) ==
    header.struct_type

(***************************************************************************)
(* impl From<&SMBiosStructParts> for DefinedStruct.  The arms of the match *)
(* in source order: << X of the pattern X::STRUCT_TYPE, the variant built, *)
(* Y of the Y::new(parts) it wraps >>; the last arm, _, builds Unknown.    *)
(***************************************************************************)
MatchArms == <<
    << "SMBiosInformation", "Information", "SMBiosInformation" >>,
    << "SMBiosSystemInformation", "SystemInformation", "SMBiosSystemInformation" >>,
    << "SMBiosBaseboardInformation", "BaseBoardInformation", "SMBiosBaseboardInformation" >>,
    << "SMBiosSystemChassisInformation", "SystemChassisInformation", "SMBiosSystemChassisInformation" >>,
    << "SMBiosProcessorInformation", "ProcessorInformation", "SMBiosProcessorInformation" >>,
    << "SMBiosMemoryControllerInformation", "MemoryControllerInformation", "SMBiosMemoryControllerInformation" >>,
    << "SMBiosMemoryModuleInformation", "MemoryModuleInformation", "SMBiosMemoryModuleInformation" >>,
    << "SMBiosCacheInformation", "CacheInformation", "SMBiosCacheInformation" >>,
    << "SMBiosPortConnectorInformation", "PortConnectorInformation", "SMBiosPortConnectorInformation" >>,
    << "SMBiosSystemSlot", "SystemSlot", "SMBiosSystemSlot" >>,
    << "SMBiosOnBoardDeviceInformation", "OnBoardDeviceInformation", "SMBiosOnBoardDeviceInformation" >>,
    << "SMBiosOemStrings", "OemStrings", "SMBiosOemStrings" >>,
    << "SMBiosSystemConfigurationOptions", "SystemConfigurationOptions", "SMBiosSystemConfigurationOptions" >>,
    << "SMBiosBiosLanguageInformation", "LanguageInformation", "SMBiosBiosLanguageInformation" >>,
    << "SMBiosGroupAssociations", "GroupAssociations", "SMBiosGroupAssociations" >>,
    << "SMBiosSystemEventLog", "EventLog", "SMBiosSystemEventLog" >>,
    << "SMBiosPhysicalMemoryArray", "PhysicalMemoryArray", "SMBiosPhysicalMemoryArray" >>,
    << "SMBiosMemoryDevice", "MemoryDevice", "SMBiosMemoryDevice" >>,
    << "SMBiosMemoryErrorInformation32", "MemoryErrorInformation32Bit", "SMBiosMemoryErrorInformation32" >>,
    << "SMBiosMemoryArrayMappedAddress", "MemoryArrayMappedAddress", "SMBiosMemoryArrayMappedAddress" >>,
    << "SMBiosMemoryDeviceMappedAddress", "MemoryDeviceMappedAddress", "SMBiosMemoryDeviceMappedAddress" >>,
    << "SMBiosBuiltInPointingDevice", "BuiltInPointingDevice", "SMBiosBuiltInPointingDevice" >>,
    << "SMBiosPortableBattery", "PortableBattery", "SMBiosPortableBattery" >>,
    << "SMBiosSystemReset", "SystemReset", "SMBiosSystemReset" >>,
    << "SMBiosHardwareSecurity", "HardwareSecurity", "SMBiosHardwareSecurity" >>,
    << "SMBiosSystemPowerControls", "SystemPowerControls", "SMBiosSystemPowerControls" >>,
    << "SMBiosVoltageProbe", "VoltageProbe", "SMBiosVoltageProbe" >>,
    << "SMBiosCoolingDevice", "CoolingDevice", "SMBiosCoolingDevice" >>,
    << "SMBiosTemperatureProbe", "TemperatureProbe", "SMBiosTemperatureProbe" >>,
    << "SMBiosElectricalCurrentProbe", "ElectricalCurrentProbe", "SMBiosElectricalCurrentProbe" >>,
    << "SMBiosOutOfBandRemoteAccess", "OutOfBandRemoteAccess", "SMBiosOutOfBandRemoteAccess" >>,
    << "SMBiosBisEntryPoint", "BisEntryPoint", "SMBiosBisEntryPoint" >>,
    << "SMBiosSystemBootInformation", "SystemBootInformation", "SMBiosSystemBootInformation" >>,
    << "SMBiosMemoryErrorInformation64", "MemoryErrorInformation64Bit", "SMBiosMemoryErrorInformation64" >>,
    << "SMBiosManagementDevice", "ManagementDevice", "SMBiosManagementDevice" >>,
    << "SMBiosManagementDeviceComponent", "ManagementDeviceComponent", "SMBiosManagementDeviceComponent" >>,
    << "SMBiosManagementDeviceThresholdData", "ManagementDeviceThresholdData", "SMBiosManagementDeviceThresholdData" >>,
    << "SMBiosMemoryChannel", "MemoryChannel", "SMBiosMemoryChannel" >>,
    << "SMBiosIpmiDeviceInformation", "IpmiDeviceInformation", "SMBiosIpmiDeviceInformation" >>,
    << "SMBiosSystemPowerSupply", "SystemPowerSupply", "SMBiosSystemPowerSupply" >>,
    << "SMBiosAdditionalInformation", "AdditionalInformation", "SMBiosAdditionalInformation" >>,
    << "SMBiosOnboardDevicesExtendedInformation", "OnboardDevicesExtendedInformation", "SMBiosOnboardDevicesExtendedInformation" >>,
    << "SMBiosManagementControllerHostInterface", "ManagementControllerHostInterface", "SMBiosManagementControllerHostInterface" >>,
    << "SMBiosTpmDevice", "TpmDevice", "SMBiosTpmDevice" >>,
    << "SMBiosProcessorAdditionalInformation", "ProcessorAdditionalInformation", "SMBiosProcessorAdditionalInformation" >>,
    << "SMBiosInactive", "Inactive", "SMBiosInactive" >>,
    << "SMBiosEndOfTable", "EndOfTable", "SMBiosEndOfTable" >>
>>

\* The first arm whose pattern equals t; 0 when only the wildcard matches.
MatchArm(t) ==
    LET hits == { i \in 1..Len(MatchArms) : STRUCT_TYPE[MatchArms[i][1]] = t } IN
    IF hits = {} THEN 0
    ELSE CHOOSE i \in hits : \A j \in hits : i <= j

\* The Inactive arm building EndOfTable.
From_InactiveAsEndOfTable(parts) ==
    LET arm == MatchArm(struct_type(parts.header)) IN
    IF arm = 0
    THEN [variant |-> "Unknown", inner |-> StructNew("SMBiosUnknown", parts)]
    ELSE IF MatchArms[arm][1] = "SMBiosInactive"
    THEN [variant |-> "EndOfTable", inner |-> StructNew("SMBiosEndOfTable", parts)]
    ELSE [variant |-> MatchArms[arm][2], inner |-> StructNew(MatchArms[arm][3], parts)]

\* A declared length below the 4-byte header sent to Unknown.
From_ShortAsUnknown(parts) ==
    LET arm == MatchArm(struct_type(parts.header)) IN
    IF arm = 0 \/ parts.header.length < 4
    THEN [variant |-> "Unknown", inner |-> StructNew("SMBiosUnknown", parts)]
    ELSE [variant |-> MatchArms[arm][2], inner |-> StructNew(MatchArms[arm][3], parts)]

From(parts) ==
    LET arm == MatchArm(struct_type(parts.header)) IN
    IF arm = 0
    THEN [variant |-> "Unknown", inner |-> StructNew("SMBiosUnknown", parts)]
    ELSE [variant |-> MatchArms[arm][2], inner |-> StructNew(MatchArms[arm][3], parts)]

(***************************************************************************)
(* DefinedStructTable                                                      *)
(***************************************************************************)
\* DefinedStructTable::new
DefinedStructTable_new == << >>

\* add that keeps only the first structure of each handle.
add_first_of_handle(self, elem) ==
    IF \E i \in 1..Len(self) :
            self[i].inner.parts.header.handle = elem.inner.parts.header.handle
    THEN self
    ELSE Append(self, elem)

\* DefinedStructTable::add
add(self, elem) ==
    Append(self, elem)

(***************************************************************************)
(* Inputs of the dispatcher                                                *)
(***************************************************************************)
\* Declared lengths: one below the 4-byte header, and the header alone.
Lengths == {3, 4}
Handles == {0, 1}

\* Every type byte.
TypeBytes == 0..255

\* The rest of a span: the formatted area after the header, the string
\* table and the optional version context.
FormattedAreas == { << >>, << 7 >> }
StringTables == { << >>, << "A" >> }
Versions == { None, Some([major |-> 3, minor |-> 4, revision |-> 0]) }

\* Spans of every type byte with an empty formatted area, no strings and no
\* version context.
AllParts ==
    { [header |-> [struct_type |-> t, length |-> l, handle |-> h],
       fields |-> << >>, strings |-> << >>, version |-> None] :
        t \in TypeBytes, l \in Lengths, h \in Handles }

\* Every span of type byte t: all declared lengths, handles, formatted
\* areas, string tables and version contexts.
SameTypeParts(t) ==
    { [header |-> [struct_type |-> t, length |-> l, handle |-> h],
       fields |-> f, strings |-> s, version |-> v] :
        l \in Lengths, h \in Handles, f \in FormattedAreas,
        s \in StringTables, v \in Versions }

\* The types of the spans given to from_iter: the first, last and closing
\* known types and two unknown ones.
TableTypes == {0, 44, 126, 127, 128}

TableParts ==
    { [header |-> [struct_type |-> t, length |-> 4, handle |-> h],
       fields |-> << >>, strings |-> << >>, version |-> None] :
        t \in TableTypes, h \in Handles }

SpanSeqs == UNION { [1..n -> TableParts] : n \in 0..MaxSpans }

(***************************************************************************)
(* SpecDispatch: two conversions, one after the other                      *)
(***************************************************************************)
InitDispatch ==
    /\ WinIdle
    /\ first_struct = NotCalled
    /\ second_struct = NotCalled
    /\ TableIdle

\* DefinedStruct::from(&parts), the first call
FromFirst ==
    /\ first_struct = NotCalled
    /\ \E parts \in AllParts :
        first_struct' = [kind |-> "Called", parts |-> parts, ret |-> From(parts)]
    /\ UNCHANGED second_struct
    /\ UNCHANGED << winVars, tableVars >>

\* DefinedStruct::from(&parts), the second call
FromSecond ==
    /\ first_struct # NotCalled
    /\ second_struct = NotCalled
    /\ \E parts \in AllParts :
        second_struct' = [kind |-> "Called", parts |-> parts, ret |-> From(parts)]
    /\ UNCHANGED first_struct
    /\ UNCHANGED << winVars, tableVars >>

\* DefinedStruct::from(&parts), the second call, on a span with the type
\* byte of the first and anything else
FromSecondSameType ==
    /\ first_struct # NotCalled
    /\ second_struct = NotCalled
    /\ \E parts \in SameTypeParts(first_struct.parts.header.struct_type) :
        second_struct' = [kind |-> "Called", parts |-> parts, ret |-> From(parts)]
    /\ UNCHANGED first_struct
    /\ UNCHANGED << winVars, tableVars >>

NextDispatch == FromFirst \/ FromSecond \/ FromSecondSameType

SpecDispatch == InitDispatch /\ [][NextDispatch]_vars

(***************************************************************************)
(* SpecTable: DefinedStructTable::from_iter(iter)                          *)
(***************************************************************************)
InitTable ==
    /\ WinIdle
    /\ DispatchIdle
    /\ iter \in SpanSeqs
    /\ iter_pos = 0
    /\ defined_struct_table = << >>
    /\ pc = "start"

\* let mut defined_struct_table = DefinedStructTable::new();
FromIterNew ==
    /\ pc = "start"
    /\ defined_struct_table' = DefinedStructTable_new
    /\ pc' = "loop"
    /\ UNCHANGED << iter, iter_pos >>
    /\ UNCHANGED << winVars, dispatchVars >>

\* for struct_parts in iter { defined_struct_table.add(struct_parts.into()); }
FromIterAdd ==
    /\ pc = "loop"
    /\ iter_pos < Len(iter)
    /\ defined_struct_table' = add(defined_struct_table, From(iter[iter_pos + 1]))
    /\ iter_pos' = iter_pos + 1
    /\ UNCHANGED << iter, pc >>
    /\ UNCHANGED << winVars, dispatchVars >>

\* the iterator is exhausted: defined_struct_table is returned
FromIterReturn ==
    /\ pc = "loop"
    /\ iter_pos = Len(iter)
    /\ pc' = "done"
    /\ UNCHANGED << iter, iter_pos, defined_struct_table >>
    /\ UNCHANGED << winVars, dispatchVars >>

NextTable == FromIterNew \/ FromIterAdd \/ FromIterReturn

SpecTable == InitTable /\ [][NextTable]_vars

(***************************************************************************)
(* Claims about the envelope (checked under Spec)                          *)
(***************************************************************************)
\* The little-endian 32-bit value of bytes 4..7 of a buffer of 8 bytes or more.
DeclaredLength(raw) ==
    raw[5] + 256 * raw[6] + 65536 * raw[7] + 16777216 * raw[8]

\* C1: is_valid_win_smbios_data(raw) returns true if and only if len(raw) > 8
\* and the little-endian u32 made of all four bytes raw[4..8] equals
\* len(raw) - 8; so an 8-byte buffer is invalid even with length field 0, and
\* a length field whose low byte matches but whose higher bytes are non-zero
\* is invalid.
C1_IsValidIff ==
    valid_ret.kind # "NotCalled" =>
        valid_ret = Ret(/\ Len(raw_data) > 8
                        /\ DeclaredLength(raw_data) = Len(raw_data) - 8)

\* A two-byte payload with a matching length field was accepted.
C1_Witness ==
    /\ Len(raw_data) = 10
    /\ valid_ret = Ret(TRUE)

\* C2: new(raw) returns Ok exactly when is_valid_win_smbios_data(raw) is true;
\* for every other buffer it returns Err of kind InvalidData, builds no
\* WinSMBiosData and makes no call to SMBiosData::from_vec_and_version.
C2_NewOkIffValid ==
    new_ret.kind # "NotCalled" =>
        IF is_valid_win_smbios_data(raw_data) = Ret(TRUE)
        THEN new_ret.kind = "Ok"
        ELSE /\ new_ret = Err("InvalidData")
             /\ from_vec_and_version_calls = << >>

\* A buffer longer than the header with a wrong length field was refused.
C2_Witness ==
    /\ Len(raw_data) > 8
    /\ new_ret = Err("InvalidData")
    /\ from_vec_and_version_calls = << >>

\* C3: for a valid envelope, new hands the decoder exactly the bytes
\* raw[8..len) in their order with Some(version), where major = raw[1],
\* minor = raw[2], revision = raw[3]; byte 0 and bytes 4..7 are in neither.
C3_DecoderInput ==
    new_ret.kind = "Ok" =>
        LET handed == [data |-> [i \in 1..(Len(raw_data) - 8) |-> raw_data[8 + i]],
                       version |-> Some([major |-> raw_data[2],
                                         minor |-> raw_data[3],
                                         revision |-> raw_data[4]])] IN
        /\ from_vec_and_version_calls = << handed >>
        /\ new_ret.value.smbios_data = handed

\* A payload of two different bytes and three different version bytes, all
\* different from byte 0, reached the decoder.
C3_Witness ==
    /\ new_ret.kind = "Ok"
    /\ Len(from_vec_and_version_calls) = 1
    /\ Len(raw_data) = 10
    /\ raw_data[9] # raw_data[10]
    /\ raw_data[1] # raw_data[2]
    /\ raw_data[2] # raw_data[3]
    /\ raw_data[3] # raw_data[4]

\* What each header accessor is to return for the buffer new was given.
ExpectedHeaderField(name, raw) ==
    CASE name = "used20_calling_method" -> Ret(raw[1])
      [] name = "smbios_major_version" -> Ret(raw[2])
      [] name = "smbios_minor_version" -> Ret(raw[3])
      [] name = "dmi_revision" -> Ret(raw[4])
      [] name = "table_data_length" -> Ret(DeclaredLength(raw))

HeaderAccessors == Accessors \ { "raw_smbios_data" }

\* C6: on a WinSMBiosData built by new(raw), used20_calling_method() = raw[0],
\* smbios_major_version() = raw[1], smbios_minor_version() = raw[2],
\* dmi_revision() = raw[3], table_data_length() = u32_le(raw[4..8]); every
\* call, after any other calls, returns these values and changes nothing.
C6_HeaderAccessors ==
    [][ (last_call'.kind = "Called" /\ last_call'.name \in HeaderAccessors) =>
            /\ last_call'.ret = ExpectedHeaderField(last_call'.name, raw_data)
            /\ new_ret' = new_ret
            /\ raw_data' = raw_data
            /\ from_vec_and_version_calls' = from_vec_and_version_calls ]_vars

\* table_data_length() returned 2 for a two-byte payload.
C6_Witness ==
    /\ last_call.kind = "Called"
    /\ last_call.name = "table_data_length"
    /\ last_call.ret = Ret(2)
    /\ Len(raw_data) = 10

\* C7: the windows_header stored by new(raw) is exactly raw[0..8), so its
\* length is 8 whatever the length of the payload.
C7_WindowsHeader ==
    new_ret.kind = "Ok" =>
        /\ Len(new_ret.value.windows_header) = 8
        /\ \A i \in 1..8 : new_ret.value.windows_header[i] = raw_data[i]

\* A WinSMBiosData was built from a ten-byte buffer.
C7_Witness ==
    /\ new_ret.kind = "Ok"
    /\ Len(raw_data) = 10
    /\ Len(new_ret.value.windows_header) = 8

\* C8: raw_smbios_data() returns the raw SMBIOS data the structure wraps: all
\* the bytes of raw passed to new (header and payload), not only a prefix.
C8_RawSmbiosDataWhole ==
    (last_call.kind = "Called" /\ last_call.name = "raw_smbios_data") =>
        last_call.ret = Ret(raw_data)

\* C9 as stated: new reports a malformed envelope exactly when the buffer is
\* shorter than 8 bytes or the declared payload length disagrees with the
\* bytes remaining after the header; a full 8-byte header whose declared
\* length agrees is accepted.
C9_MalformedIffShorterThan8 ==
    new_ret.kind # "NotCalled" =>
        IF Len(raw_data) < 8 \/ DeclaredLength(raw_data) # Len(raw_data) - 8
        THEN new_ret = Err("InvalidData")
        ELSE new_ret.kind = "Ok"

\* C9 amended: new reports a malformed envelope exactly when the buffer is 8
\* bytes or shorter, or the declared payload length disagrees with the bytes
\* remaining after the header; every longer buffer whose declared length
\* agrees is accepted.
C9_MalformedIffAtMost8 ==
    new_ret.kind # "NotCalled" =>
        IF Len(raw_data) <= 8 \/ DeclaredLength(raw_data) # Len(raw_data) - 8
        THEN new_ret = Err("InvalidData")
        ELSE new_ret.kind = "Ok"

\* A bare 8-byte header declaring an empty payload was refused.
C9_Witness ==
    /\ Len(raw_data) = 8
    /\ DeclaredLength(raw_data) = 0
    /\ new_ret = Err("InvalidData")

\* C10: validation and header access never abort: for a buffer of any length
\* is_valid_win_smbios_data returns a boolean (no out-of-range slice, failed
\* unwrap/expect or underflow in len - 8), new does not abort, and on every
\* WinSMBiosData built by new each header accessor is in range.
C10_NoAbort ==
    /\ valid_ret.kind # "NotCalled" => valid_ret \in { Ret(TRUE), Ret(FALSE) }
    /\ new_ret.kind \in { "NotCalled", "Ok", "Err" }
    /\ last_call.kind = "Called" => last_call.ret.kind = "Ret"

\* A buffer too short to hold the length field was validated and refused.
C10_Witness ==
    /\ Len(raw_data) < 8
    /\ Len(raw_data) > 0
    /\ valid_ret = Ret(FALSE)
    /\ new_ret.kind = "Err"

\* C11: every WinSMBiosData new can return has table_data_length() equal to
\* the number of payload bytes handed to the structure-table decoder, which
\* is len(raw) - 8 and at least 1: the decoder gets no byte beyond the
\* declared payload length and never an empty payload.
C11_DeclaredLengthIsPayload ==
    new_ret.kind = "Ok" =>
        /\ Len(from_vec_and_version_calls) = 1
        /\ LET payload == from_vec_and_version_calls[1].data IN
            /\ table_data_length(new_ret.value) = Ret(Len(payload))
            /\ new_ret.value.smbios_data.data = payload
            /\ Len(payload) = Len(raw_data) - 8
            /\ Len(payload) >= 1
        /\ (last_call.kind = "Called" /\ last_call.name = "table_data_length") =>
            last_call.ret = Ret(Len(from_vec_and_version_calls[1].data))

\* table_data_length() was called on a WinSMBiosData whose decoder was handed
\* a one-byte payload, and returned 1.
C11_Witness ==
    /\ new_ret.kind = "Ok"
    /\ Len(from_vec_and_version_calls) = 1
    /\ Len(from_vec_and_version_calls[1].data) = 1
    /\ last_call.kind = "Called"
    /\ last_call.name = "table_data_length"
    /\ last_call.ret = Ret(1)

(***************************************************************************)
(* Claims about the dispatcher (SpecDispatch) and the table (SpecTable)    *)
(***************************************************************************)
\* The variants named for the types 0..44, in order of type.
VariantsByType == <<
    "Information",
    "SystemInformation",
    "BaseBoardInformation",
    "SystemChassisInformation",
    "ProcessorInformation",
    "MemoryControllerInformation",
    "MemoryModuleInformation",
    "CacheInformation",
    "PortConnectorInformation",
    "SystemSlot",
    "OnBoardDeviceInformation",
    "OemStrings",
    "SystemConfigurationOptions",
    "LanguageInformation",
    "GroupAssociations",
    "EventLog",
    "PhysicalMemoryArray",
    "MemoryDevice",
    "MemoryErrorInformation32Bit",
    "MemoryArrayMappedAddress",
    "MemoryDeviceMappedAddress",
    "BuiltInPointingDevice",
    "PortableBattery",
    "SystemReset",
    "HardwareSecurity",
    "SystemPowerControls",
    "VoltageProbe",
    "CoolingDevice",
    "TemperatureProbe",
    "ElectricalCurrentProbe",
    "OutOfBandRemoteAccess",
    "BisEntryPoint",
    "SystemBootInformation",
    "MemoryErrorInformation64Bit",
    "ManagementDevice",
    "ManagementDeviceComponent",
    "ManagementDeviceThresholdData",
    "MemoryChannel",
    "IpmiDeviceInformation",
    "SystemPowerSupply",
    "AdditionalInformation",
    "OnboardDevicesExtendedInformation",
    "ManagementControllerHostInterface",
    "TpmDevice",
    "ProcessorAdditionalInformation"
>>

ExpectedVariant(t) ==
    IF t \in 0..44 THEN VariantsByType[t + 1]
    ELSE IF t = 126 THEN "Inactive"
    ELSE IF t = 127 THEN "EndOfTable"
    ELSE "Unknown"

KnownTypes == (0..44) \cup {126, 127}

\* One conversion yields exactly one variant of the enum, the one named for
\* its type byte, wrapping the struct the enum declares for that variant.
DispatchedAsExpected(call) ==
    call.kind = "Called" =>
        /\ call.ret.variant = ExpectedVariant(call.parts.header.struct_type)
        /\ \E i \in 1..Len(DefinedStruct) :
            << call.ret.variant, call.ret.inner.struct >> = DefinedStruct[i]
        /\ call.ret.inner.parts = call.parts

\* C4: the conversion is total over the type byte: every t in 0..255 yields
\* exactly one variant; each t in 0..44 its own named variant, 126 Inactive,
\* 127 EndOfTable, no two of these 47 types the same variant, and every
\* other value (45..125, 128..255) Unknown.
C4_DispatchTotal ==
    /\ DispatchedAsExpected(first_struct)
    /\ DispatchedAsExpected(second_struct)
    /\ (/\ second_struct.kind = "Called"
        /\ first_struct.parts.header.struct_type \in KnownTypes
        /\ second_struct.parts.header.struct_type \in KnownTypes
        /\ first_struct.parts.header.struct_type
                # second_struct.parts.header.struct_type)
        => first_struct.ret.variant # second_struct.ret.variant
    /\ (first_struct.kind = "Called"
        /\ first_struct.parts.header.struct_type \notin KnownTypes)
        => first_struct.ret.variant = "Unknown"

\* Types 126 and 127 were dispatched, to Inactive and to EndOfTable.
C4_Witness ==
    /\ second_struct.kind = "Called"
    /\ first_struct.parts.header.struct_type = 126
    /\ first_struct.ret.variant = "Inactive"
    /\ second_struct.parts.header.struct_type = 127
    /\ second_struct.ret.variant = "EndOfTable"

\* C5: from_iter over any finite sequence of spans yields a table with as
\* many entries as spans, entry i being the dispatch of span i: nothing is
\* dropped, reordered, merged or deduplicated (same handle, same type), and
\* spans after an EndOfTable span are still added.
C5_TableFaithful ==
    /\ pc \in {"loop", "done"} => Len(defined_struct_table) = iter_pos
    /\ pc = "done" =>
        /\ Len(defined_struct_table) = Len(iter)
        /\ \A i \in 1..Len(iter) :
            /\ defined_struct_table[i] = From(iter[i])
            /\ defined_struct_table[i].inner.parts = iter[i]

\* An EndOfTable span followed by two equal spans: all three are in the table.
C5_Witness ==
    /\ pc = "done"
    /\ Len(iter) = 3
    /\ iter[1].header.struct_type = 127
    /\ iter[2] = iter[3]
    /\ Len(defined_struct_table) = 3

\* C12: the variant chosen depends only on the header's type byte: two spans
\* with the same type byte get the same variant kind whatever their declared
\* length (below 4 included), handle, formatted area (empty included), string
\* table or version context, and the same span dispatched twice gets the
\* same variant.
C12_TypeByteOnly ==
    second_struct.kind = "Called" =>
        /\ (first_struct.parts.header.struct_type
                = second_struct.parts.header.struct_type)
            => /\ first_struct.ret.variant = second_struct.ret.variant
               /\ first_struct.ret.inner.struct = second_struct.ret.inner.struct
        /\ first_struct.parts = second_struct.parts
            => first_struct.ret = second_struct.ret

\* Two spans of type 17 differing in declared length (3 and 4), handle,
\* formatted area, string table and version context both became MemoryDevice.
C12_Witness ==
    /\ second_struct.kind = "Called"
    /\ first_struct.parts.header.struct_type = 17
    /\ second_struct.parts.header.struct_type = 17
    /\ first_struct.parts.header.length = 3
    /\ second_struct.parts.header.length = 4
    /\ first_struct.parts.header.handle # second_struct.parts.header.handle
    /\ first_struct.parts.fields # second_struct.parts.fields
    /\ first_struct.parts.strings # second_struct.parts.strings
    /\ first_struct.parts.version # second_struct.parts.version
    /\ first_struct.ret.variant = "MemoryDevice"
    /\ second_struct.ret.variant = "MemoryDevice"

====
